---------------------------- MODULE Spec2Model ----------------------------
(***************************************************************************)
(* IBIS_Sender_MQTT.ino: an MQTT client that turns "display text"          *)
(* messages into IBIS DS021t telegrams written to Serial1 and "lighting"   *)
(* messages into a level of the lighting pin.                              *)
(*                                                                         *)
(* Bytes are the numbers 0..255; a C string is the sequence of its bytes   *)
(* before the terminating 0.                                               *)
(***************************************************************************)
EXTENDS Integers, Sequences, FiniteSets, TLC

VARIABLES
    pc,         \* position of loop(): "check", "connect", "sub_message", "sub_lighting", "delay", "poll"
    connected,  \* client.connected()
    subs,       \* topics subscribed in the current session
    packet,     \* the publish packet received last (it stays in the client's buffer), or NoMsg
    unread,     \* packet has arrived and client.loop() has not read it yet
    lighting,   \* level of lightingPin
    nwrites,    \* number of Serial1.write calls made so far
    sink,       \* bytes of the latest Serial1.write
    halted,     \* the processor has faulted (after an out-of-bounds stack write)
    address,    \* DS021t: argument
    text,       \* DS021t: argument
    ds,         \* DS021t: what the latest call computed, or NoCall
    hexIn,      \* vdv_hex: argument
    hexOut,     \* vdv_hex: output buffer as a C string, or NoCall
    normIn,     \* process_special_characters: buffer before
    normOut     \* process_special_characters: buffer after, or NoCall

vars == <<pc, connected, subs, packet, unread, lighting, nwrites, sink, halted,
          address, text, ds, hexIn, hexOut, normIn, normOut>>

sysVars  == <<pc, connected, subs, packet, unread, lighting, nwrites, sink, halted>>
dsVars   == <<address, text, ds>>
hexVars  == <<hexIn, hexOut>>
normVars == <<normIn, normOut>>

NoCall == <<>>    \* ds, hexOut, normOut hold <<>> or <<the result>>
NoMsg  == <<>>    \* packet holds <<>> or <<the packet>>

---------------------------------------------------------------------------
(* Bounds of the model. *)

MaxText    == 2   \* free bytes at the head of a display text
MaxNormLen == 3   \* length of the strings given to process_special_characters
MaxLightLen == 3  \* free bytes at the head of a lighting payload
HexSlack   == 3   \* how far beyond 0..255 vdv_hex's argument ranges
MaxWrites  == 2   \* Serial1.write calls in one run of the system

---------------------------------------------------------------------------
(* Program constants. *)

BufSize == 256    \* char telegram[256], message[256], processed_telegram[256], buffer[256]

topic_message  == "home/flipdot/message"
topic_lighting == "home/flipdot/lighting"
topic_other    == "home/flipdot/other"

LOW  == "LOW"
HIGH == "HIGH"

---------------------------------------------------------------------------
(* C library pieces the sketch relies on. *)

Range(s) == {s[i] : i \in 1..Len(s)}

Take(s, n) == SubSeq(s, 1, IF Len(s) < n THEN Len(s) ELSE n)

Fill(n, b) == [i \in 1..n |-> b]

\* strlen / "%s": the bytes before the first 0.
CStr(s) ==
    LET zeros == {i \in 1..Len(s) : s[i] = 0}
        first == CHOOSE i \in zeros : \A j \in zeros : i <= j
    IN  IF zeros = {} THEN s ELSE SubSeq(s, 1, first - 1)

RECURSIVE BitXor(_, _)
BitXor(a, b) ==
    IF a = 0 THEN b
    ELSE IF b = 0 THEN a
    ELSE (((a % 2) + (b % 2)) % 2) + (2 * BitXor(a \div 2, b \div 2))

\* strncmp(buffer, lit, n) == 0 where lit has exactly n bytes, none 0.
StrNCmpEq(buffer, lit) ==
    /\ Len(buffer) >= Len(lit)
    /\ SubSeq(buffer, 1, Len(lit)) = lit

---------------------------------------------------------------------------
(* vdv_hex *)

vdvhex == <<48, 49, 50, 51, 52, 53, 54, 55, 56, 57, 58, 59, 60, 61, 62, 63>>   \* "0123456789:;<=>?"

\* Ordinary hexadecimal digits ("0123456789ABCDEF") instead of the VDV ones.
vdv_hex_Mutant(value) ==
    LET hexdigit(k) == IF k < 10 THEN 48 + k ELSE 55 + k
    IN  IF value < 0 \/ value > 255
          THEN <<63, 63>>
          ELSE IF value > 15
                 THEN <<hexdigit(value \div 16), hexdigit(value % 16)>>
                 ELSE <<hexdigit(value)>>

vdv_hex(value) ==
    IF value < 0 \/ value > 255
      THEN <<63, 63>>
      ELSE IF value > 15
             THEN <<vdvhex[(value \div 16) + 1], vdvhex[(value % 16) + 1]>>
             ELSE <<vdvhex[value + 1]>>

---------------------------------------------------------------------------
(* process_special_characters                                              *)
(*                                                                         *)
(* The loop reads the buffer left to right at src and writes at dst, with  *)
(* dst <= src throughout, so every read sees a byte of the original        *)
(* string.  buf is the string with its terminating 0.  psc_scan runs the   *)
(* loop over buf[lo..hi]: skip says that src has already moved past        *)
(* buf[lo] (the second byte of a pair replaced just before); it returns    *)
(* the bytes written and whether src has moved past buf[hi + 1].  The      *)
(* range is scanned by halves, left half first, which keeps the depth of   *)
(* the evaluation logarithmic in the length.                               *)

specialMap == [c \in {164, 182, 188, 159, 132, 150, 156} |->
                 CASE c = 164 -> 123      \* C3 A4 -> '{'
                   [] c = 182 -> 124      \* C3 B6 -> '|'
                   [] c = 188 -> 125      \* C3 BC -> '}'
                   [] c = 159 -> 126      \* C3 9F -> '~'
                   [] c = 132 -> 91       \* C3 84 -> '['
                   [] c = 150 -> 92       \* C3 96 -> '\'
                   [] c = 156 -> 93]      \* C3 9C -> ']'

\* One pass of the loop body with src at buf[i].
psc_step(buf, i, skip, map) ==
    IF skip
      THEN [out |-> <<>>, skip |-> FALSE]
      ELSE IF buf[i] = 195 /\ buf[i + 1] \in DOMAIN map
             THEN [out |-> <<map[buf[i + 1]]>>, skip |-> TRUE]      \* *dst++ = ...; src += 2
             ELSE [out |-> <<buf[i]>>, skip |-> FALSE]              \* *dst++ = *src++

RECURSIVE psc_scan(_, _, _, _, _)
psc_scan(buf, lo, hi, skip, map) ==
    IF lo > hi THEN [out |-> <<>>, skip |-> skip]
    ELSE IF lo = hi THEN psc_step(buf, lo, skip, map)
    ELSE LET mid   == (lo + hi) \div 2
             left  == psc_scan(buf, lo, mid, skip, map)
             right == psc_scan(buf, mid + 1, hi, left.skip, map)
         IN  [out |-> left.out \o right.out, skip |-> right.skip]

\* Only the four lower-case letters are replaced.
process_special_characters_Mutant(s) ==
    psc_scan(Append(s, 0), 1, Len(s), FALSE,
             [c \in {164, 182, 188, 159} |-> specialMap[c]]).out

\* s: the C string in the buffer on entry; the result: the C string on return.
process_special_characters(s) ==
    psc_scan(Append(s, 0), 1, Len(s), FALSE, specialMap).out

---------------------------------------------------------------------------
(* compute_checksum, wrap_telegram                                         *)
(*                                                                         *)
(* checksum starts at 0x7F and is XORed with every byte in turn; XOR is    *)
(* associative, so the bytes are folded by halves.                         *)

RECURSIVE xor_fold(_, _, _)
xor_fold(msg, lo, hi) ==
    IF lo > hi THEN 0
    ELSE IF lo = hi THEN msg[lo]
    ELSE LET mid == (lo + hi) \div 2
         IN  BitXor(xor_fold(msg, lo, mid), xor_fold(msg, mid + 1, hi))

compute_checksum(msg) == BitXor(127, xor_fold(msg, 1, Len(msg)))

\* The buffer's bytes after wrap_telegram, up to (not including) the final 0
\* it stores at telegram[len + 1]: the string, CR, the raw checksum byte.
wrap_telegram(telegram) ==
    LET withCR == Append(telegram, 13)
    IN  Append(withCR, compute_checksum(withCR))

---------------------------------------------------------------------------
(* send_telegram                                                           *)
(*                                                                         *)
(* strncpy(processed_telegram, telegram, 255) stores a terminating 0 only  *)
(* when telegram is shorter than 255 bytes.  Otherwise                     *)
(* processed_telegram[255] keeps whatever the stack held: the scans that   *)
(* follow read an indeterminate byte, which is either 0 or not (and then   *)
(* run on into the memory behind the buffer; one byte stands for the bytes *)
(* up to the next 0).  Each outcome is one element of the set below.       *)

GarbageTails == {<<>>, <<170>>}

\* The call was not reached.
NoSend == [ copied |-> <<>>, processed |-> <<>>, wrapped |-> <<>>, written |-> <<>>,
            oob |-> FALSE, uninit |-> FALSE ]

send_telegram(telegram) ==
    LET unterminated == Len(telegram) >= BufSize - 1
        tails == IF unterminated THEN GarbageTails ELSE {<<>>}
    IN  { LET copied    == Take(telegram, BufSize - 1) \o g
              processed == process_special_characters(copied)
              wrapped   == wrap_telegram(processed)
          IN  [ copied    |-> copied,      \* processed_telegram after strncpy
                processed |-> processed,   \* ... after process_special_characters
                wrapped   |-> wrapped,     \* ... after wrap_telegram
                \* Serial1.write(processed_telegram, strlen(processed_telegram))
                written   |-> CStr(wrapped),
                \* wrap_telegram's last store is the 0 at index Len(wrapped)
                oob       |-> Len(wrapped) >= BufSize,
                uninit    |-> unterminated ]
          : g \in tails }

---------------------------------------------------------------------------
(* DS021t                                                                  *)
(*                                                                         *)
(* When strlen(message) is 255 the padding loop and the terminator store   *)
(* write message[256 .. 270], behind the array.  What the build does then  *)
(* is not defined: the stores may land in unused stack (the call goes on   *)
(* with the bytes it wrote) or in the frame's own slots or the saved       *)
(* return address (the processor faults, during the call or when a         *)
(* function returns).  The outcomes are the elements of the set below.     *)

\* Three line breaks whatever the text holds.
append_newlines_Mutant(txt) == <<10, 10, 10>>

\* What the format of the first snprintf puts after the text.
append_newlines(txt) ==
    IF 10 \in Range(txt)              \* strchr(text, '\n') != NULL
      THEN <<10, 10>>
      ELSE <<10, 10, 10>>

DS021t(addr, txt) ==
    LET has_newline    == 10 \in Range(txt)
        message0       == Take(txt \o append_newlines(txt), BufSize - 1)   \* snprintf(message, 256, ...)
        len            == Len(message0)
        total_len_with_padding == len + 2
        num_blocks     == (total_len_with_padding + 15) \div 16
        usable_bytes   == (num_blocks * 16) - 2
        message        == message0 \o Fill(usable_bytes - len, 32)
        message_oob    == usable_bytes >= BufSize                  \* message[usable_bytes] = '\0'
        address_hex    == vdv_hex(addr)
        num_blocks_hex == vdv_hex(num_blocks)
        telegram       == Take(<<97, 65>> \o address_hex \o num_blocks_hex \o <<65, 48>> \o message,
                               BufSize - 1)                        \* snprintf(telegram, 256, ...)
        base           == [ has_newline |-> has_newline, len |-> len,
                            num_blocks |-> num_blocks, usable_bytes |-> usable_bytes,
                            message |-> message, message_oob |-> message_oob,
                            address_hex |-> address_hex, num_blocks_hex |-> num_blocks_hex,
                            telegram |-> telegram ]
        Outcome(sent, wrote, h) ==
            [ call |-> base, sent |-> sent, wrote |-> wrote, halted |-> h ]
        sends == send_telegram(telegram)
    IN  \* no store outside the buffers: send_telegram returns, so does DS021t
        { Outcome(s, TRUE, FALSE) : s \in {t \in sends : ~message_oob /\ ~t.oob} }
        \cup
        \* a store outside message or processed_telegram: the call runs on, or
        \* the processor faults after the write or before it
        { Outcome(s, wh[1], wh[2]) :
            s \in {t \in sends : message_oob \/ t.oob},
            wh \in {<<TRUE, FALSE>>, <<TRUE, TRUE>>, <<FALSE, TRUE>>} }
        \cup
        \* ... or faults in DS021t itself, before send_telegram is called
        (IF message_oob THEN {Outcome(NoSend, FALSE, TRUE)} ELSE {})

---------------------------------------------------------------------------
(* mqtt_callback: the handler PubSubClient calls from client.loop() for    *)
(* one received publish (topic, payload, length = Len(payload)).           *)

\* "Off" compared over two bytes only.
lighting_level_ShortOff(buffer, level) ==
    IF StrNCmpEq(buffer, <<79, 110>>) THEN HIGH
    ELSE IF StrNCmpEq(buffer, <<79, 102>>) THEN LOW
    ELSE level

\* Whatever is not "On" switches the lighting off.
lighting_level_DefaultLow(buffer, level) ==
    IF StrNCmpEq(buffer, <<79, 110>>) THEN HIGH ELSE LOW

\* The if / else if on buffer in the lighting branch: the level the pin has
\* after it, given the level it had.
lighting_level(buffer, level) ==
    IF StrNCmpEq(buffer, <<79, 110>>) THEN HIGH                 \* strncmp(buffer, "On", 2) == 0
    ELSE IF StrNCmpEq(buffer, <<79, 102, 102>>) THEN LOW        \* strncmp(buffer, "Off", 3) == 0
    ELSE level

mqtt_callback(topic, payload) ==
    LET n      == IF Len(payload) < BufSize - 1 THEN Len(payload) ELSE BufSize - 1
        buffer == CStr(SubSeq(payload, 1, n))              \* memcpy + buffer[n] = '\0'
        flipdotMessage_str == CStr(SubSeq(payload, 1, n))  \* memcpy + [copy_len] = '\0'
        display == Take(flipdotMessage_str, BufSize - 1)   \* snprintf(display, 256, "%s", ...)
    IN  IF topic = topic_message
          THEN \E o \in DS021t(2, display) :
                 /\ nwrites' = IF o.wrote THEN nwrites + 1 ELSE nwrites
                 /\ sink' = IF o.wrote THEN o.sent.written ELSE sink
                 /\ halted' = o.halted
                 /\ UNCHANGED lighting
          ELSE IF topic = topic_lighting
                 THEN /\ lighting' = lighting_level(buffer, lighting)
                      /\ UNCHANGED <<nwrites, sink, halted>>
                 ELSE UNCHANGED <<lighting, nwrites, sink, halted>>

---------------------------------------------------------------------------
(* loop() and mqtt_reconnect(), one action per step of the main task.      *)

Topics == {topic_message, topic_lighting, topic_other}

\* loop(): if (!client.connected()) mqtt_reconnect();
loop_check ==
    /\ ~halted /\ pc = "check"
    /\ pc' = IF connected THEN "poll" ELSE "connect"
    /\ UNCHANGED <<connected, subs, packet, unread, lighting, nwrites, sink, halted>>

\* mqtt_reconnect(): the while condition found the client connected.
reconnect_done ==
    /\ ~halted /\ pc = "connect" /\ connected
    /\ pc' = "poll"
    /\ UNCHANGED <<connected, subs, packet, unread, lighting, nwrites, sink, halted>>

\* client.connect(...) returned true.
connect_ok ==
    /\ ~halted /\ pc = "connect" /\ ~connected
    /\ connected' = TRUE
    /\ subs' = {}
    /\ pc' = "sub_message"
    /\ UNCHANGED <<packet, unread, lighting, nwrites, sink, halted>>

\* client.connect(...) returned false.
connect_fail ==
    /\ ~halted /\ pc = "connect" /\ ~connected
    /\ pc' = "delay"
    /\ UNCHANGED <<connected, subs, packet, unread, lighting, nwrites, sink, halted>>

\* delay(5000), then the while condition again.
retry_delay ==
    /\ ~halted /\ pc = "delay"
    /\ pc' = "connect"
    /\ UNCHANGED <<connected, subs, packet, unread, lighting, nwrites, sink, halted>>

\* client.subscribe(topic_message): takes effect only on a live connection.
subscribe_message ==
    /\ ~halted /\ pc = "sub_message"
    /\ subs' = IF connected THEN subs \cup {topic_message} ELSE subs
    /\ pc' = "sub_lighting"
    /\ UNCHANGED <<connected, packet, unread, lighting, nwrites, sink, halted>>

\* client.subscribe(topic_lighting), then the while condition again.
subscribe_lighting ==
    /\ ~halted /\ pc = "sub_lighting"
    /\ subs' = IF connected THEN subs \cup {topic_lighting} ELSE subs
    /\ pc' = "connect"
    /\ UNCHANGED <<connected, packet, unread, lighting, nwrites, sink, halted>>

\* client.loop(): reads at most the packet that has arrived and runs the callback.
client_loop ==
    /\ ~halted /\ pc = "poll"
    /\ pc' = "check"
    /\ IF connected /\ unread
         THEN /\ mqtt_callback(packet[1].topic, packet[1].payload)
              /\ unread' = FALSE
              /\ UNCHANGED packet
         ELSE UNCHANGED <<packet, unread, lighting, nwrites, sink, halted>>
    /\ UNCHANGED <<connected, subs>>

mqtt_reconnect == reconnect_done \/ connect_ok \/ connect_fail \/ retry_delay
                    \/ subscribe_message \/ subscribe_lighting

loop == loop_check \/ mqtt_reconnect \/ client_loop

---------------------------------------------------------------------------
(* The command source (broker and network). *)

On      == <<79, 110>>
Off     == <<79, 102, 102>>
Offline == <<79, 102, 102, 108, 105, 110, 101>>
Hello   == <<72, 101, 108, 108, 111>>
Mueller == <<77, 195, 188, 108, 108, 101, 114>>       \* "Müller" in UTF-8

SysPayloads == { <<>>, On, Off, Hello, Fill(BufSize + 4, 120) }

\* A publish arrives on the connection.  Topics outside the subscriptions are
\* allowed to arrive as well: the callback itself sorts them out.
Publish ==
    /\ connected /\ ~unread /\ nwrites < MaxWrites
    /\ \E t \in Topics, p \in SysPayloads :
         /\ t \in subs \/ t = topic_other
         /\ packet' = <<[topic |-> t, payload |-> p]>>
    /\ unread' = TRUE
    /\ UNCHANGED <<pc, connected, subs, lighting, nwrites, sink, halted>>

\* The connection is lost; what was in flight on it is gone.
Drop ==
    /\ connected
    /\ connected' = FALSE
    /\ subs' = {}
    /\ unread' = FALSE
    /\ UNCHANGED <<pc, packet, lighting, nwrites, sink, halted>>

---------------------------------------------------------------------------
(* The system: setup() has run; loop() runs for ever. *)

SeqsUpTo(A, n) == UNION {[1..k -> A] : k \in 0..n}

IdleSys ==
    /\ pc = "check" /\ connected = FALSE /\ subs = {} /\ packet = NoMsg /\ unread = FALSE
    /\ lighting = LOW                    \* setup(): digitalWrite(lightingPin, LOW)
    /\ nwrites = 0 /\ sink = <<>> /\ halted = FALSE
IdleDS   == address = 2 /\ text = <<>> /\ ds = NoCall
IdleHex  == hexIn = 0 /\ hexOut = NoCall
IdleNorm == normIn = <<>> /\ normOut = NoCall

Init == IdleSys /\ IdleDS /\ IdleHex /\ IdleNorm

Next ==
    \/ loop_check /\ UNCHANGED <<dsVars, hexVars, normVars>>
    \/ reconnect_done /\ UNCHANGED <<dsVars, hexVars, normVars>>
    \/ connect_ok /\ UNCHANGED <<dsVars, hexVars, normVars>>
    \/ connect_fail /\ UNCHANGED <<dsVars, hexVars, normVars>>
    \/ retry_delay /\ UNCHANGED <<dsVars, hexVars, normVars>>
    \/ subscribe_message /\ UNCHANGED <<dsVars, hexVars, normVars>>
    \/ subscribe_lighting /\ UNCHANGED <<dsVars, hexVars, normVars>>
    \/ client_loop /\ UNCHANGED <<dsVars, hexVars, normVars>>
    \/ Publish /\ UNCHANGED <<dsVars, hexVars, normVars>>
    \/ Drop /\ UNCHANGED <<dsVars, hexVars, normVars>>

Spec == Init /\ [][Next]_vars

\* loop() is scheduled for ever, so the step of the main task that is enabled
\* is taken in the end; the claim about reconnection assumes that a connection
\* attempt succeeds in the end.  client_loop is enabled exactly when the task
\* stands at "poll" and has not faulted, and it is the only action that takes
\* pc from "poll" to "check": its fairness is stated on pc.
Idle == UNCHANGED <<dsVars, hexVars, normVars>>

FairSpec ==
    /\ Spec
    /\ WF_vars(loop_check /\ Idle)
    /\ WF_vars(reconnect_done /\ Idle)
    /\ WF_vars((connect_ok \/ connect_fail) /\ Idle)
    /\ WF_vars(retry_delay /\ Idle)
    /\ WF_vars(subscribe_message /\ Idle)
    /\ WF_vars(subscribe_lighting /\ Idle)
    /\ WF_pc(~halted /\ pc = "poll" /\ pc' = "check")
    /\ SF_vars(connect_ok /\ Idle)

---------------------------------------------------------------------------
(* The lighting branch on its own: one packet, any level of the pin. *)

LightAlphabet == {79, 110, 102, 111, 70, 0}          \* 'O' 'n' 'f' 'o' 'F' NUL
LightTails    == {<<>>, <<108, 105, 110, 101>>}      \* "", "line"
LightPayloads == {p \o t : p \in SeqsUpTo(LightAlphabet, MaxLightLen), t \in LightTails}

InitLight ==
    /\ pc = "poll" /\ connected = TRUE /\ subs = {topic_message, topic_lighting}
    /\ nwrites = 0 /\ sink = <<>> /\ halted = FALSE
    /\ lighting \in {LOW, HIGH}
    /\ \E t \in Topics, p \in LightPayloads : packet = <<[topic |-> t, payload |-> p]>>
    /\ unread = TRUE
    /\ IdleDS /\ IdleHex /\ IdleNorm

NextLight == client_loop /\ UNCHANGED <<dsVars, hexVars, normVars>>

SpecLight == InitLight /\ [][NextLight]_vars

---------------------------------------------------------------------------
(* DS021t on its own: every address with the short texts, two addresses    *)
(* with the texts that fill the buffers.                                   *)

Addresses     == 0..255
LongAddresses == {2, 200}
DSAlphabet    == {72, 10, 195, 188, 42}              \* 'H' LF C3 BC '*'
FillLens      == {234, 250}
Heads         == SeqsUpTo(DSAlphabet, MaxText)
ShortTexts    == Heads \cup {Hello, Mueller}
LongTexts     == {p \o Fill(k, 120) : p \in Heads, k \in FillLens}

InitDS ==
    /\ \/ address \in Addresses /\ text \in ShortTexts
       \/ address \in LongAddresses /\ text \in LongTexts
    /\ ds = NoCall
    /\ IdleSys /\ IdleHex /\ IdleNorm

call_DS021t ==
    /\ ds = NoCall
    /\ \E o \in DS021t(address, text) : ds' = <<o>>
    /\ UNCHANGED <<address, text>>

NextDS == call_DS021t /\ UNCHANGED <<sysVars, hexVars, normVars>>

SpecDS == InitDS /\ [][NextDS]_vars

---------------------------------------------------------------------------
(* vdv_hex on its own. *)

InitHex ==
    /\ hexIn \in (0 - HexSlack)..(255 + HexSlack) /\ hexOut = NoCall
    /\ IdleSys /\ IdleDS /\ IdleNorm

call_vdv_hex ==
    /\ hexOut = NoCall
    /\ hexOut' = <<vdv_hex(hexIn)>>
    /\ UNCHANGED hexIn

NextHex == call_vdv_hex /\ UNCHANGED <<sysVars, dsVars, normVars>>

SpecHex == InitHex /\ [][NextHex]_vars

---------------------------------------------------------------------------
(* process_special_characters on its own. *)

NormAlphabet == {195, 164, 182, 188, 159, 132, 150, 156, 77, 165}
NormInputs   == SeqsUpTo(NormAlphabet, MaxNormLen) \cup {Mueller}

InitNorm ==
    /\ normIn \in NormInputs /\ normOut = NoCall
    /\ IdleSys /\ IdleDS /\ IdleHex

call_process_special_characters ==
    /\ normOut = NoCall
    /\ normOut' = <<process_special_characters(normIn)>>
    /\ UNCHANGED normIn

NextNorm == call_process_special_characters /\ UNCHANGED <<sysVars, dsVars, hexVars>>

SpecNorm == InitNorm /\ [][NextNorm]_vars

---------------------------------------------------------------------------
(* What the claims speak of, stated without the operators above.           *)

\* The alphabet "0123456789:;<=>?" is the sixteen ASCII codes from '0' on.
Encode(v) ==
    IF v < 0 \/ v > 255 THEN <<63, 63>>
    ELSE IF v <= 15 THEN <<48 + v>>
    ELSE <<48 + (v \div 16), 48 + (v % 16)>>

CeilDiv(x, d) == CHOOSE n \in 0..x : n * d >= x /\ (n - 1) * d < x

Replacement ==
    (164 :> 123) @@ (182 :> 124) @@ (188 :> 125) @@ (159 :> 126) @@
    (132 :> 91) @@ (150 :> 92) @@ (156 :> 93)

\* Where a mapped pair starts.  195 is no second byte, so pairs never overlap.
PairStarts(s) == {i \in 1..(Len(s) - 1) : s[i] = 195 /\ s[i + 1] \in DOMAIN Replacement}

\* The positions that are not the second byte of a pair, and s rewritten at them.
Kept(s) == {i \in 1..Len(s) : (i - 1) \notin PairStarts(s)}
Rewritten(s) ==
    [k \in 1..Cardinality(Kept(s)) |->
        LET i == CHOOSE j \in Kept(s) : Cardinality({m \in Kept(s) : m <= j}) = k
        IN  IF i \in PairStarts(s) THEN Replacement[s[i + 1]] ELSE s[i]]

LineBreaks(t) == IF \E i \in 1..Len(t) : t[i] = 10 THEN <<10, 10>> ELSE <<10, 10, 10>>

\* The telegram a display text should give: header, text, line breaks, spaces.
Layout(a, t) ==
    LET body == t \o LineBreaks(t)
        nb   == CeilDiv(Len(body) + 2, 16)
        hdr  == <<97, 65>> \o Encode(a) \o Encode(nb) \o <<65, 48>>
    IN  [ numBlocks |-> nb,
          header    |-> hdr,
          payload   |-> hdr \o body \o Fill((16 * nb) - 2 - Len(body), 32) ]

HeaderLen(o) == 2 + Len(o.call.address_hex) + Len(o.call.num_blocks_hex) + 2

Called == ds # NoCall
Result == ds[1]

---------------------------------------------------------------------------
(* Claims *)

\* C1: whenever a display text is transmitted, the message field (after the
\* "A0" marker, before the CR) has length 16*N - 2, N being the block count
\* the telegram carries.
C1_MessageFieldAligned ==
    (Called /\ Result.wrote) =>
        Len(Result.sent.processed) - HeaderLen(Result) = (16 * Result.call.num_blocks) - 2

\* C2: the block count and the number of padding spaces are computed from the
\* normalized length of text plus line breaks (a mapped pair counts as one byte).
C2_BlocksFromNormalizedLength ==
    Called =>
        LET body    == text \o LineBreaks(text)
            normLen == Len(body) - Cardinality(PairStarts(body))
            nb      == CeilDiv(normLen + 2, 16)
        IN  /\ Result.call.num_blocks = nb
            /\ Result.call.usable_bytes - Result.call.len = (16 * nb) - 2 - normLen

\* C3: the bytes written are the payload handed to the framer, then CR, then
\* one checksum byte (0x7F XORed with every byte before it): Len(payload) + 2
\* bytes, whatever the checksum's value.
C3_FramedWithChecksum ==
    (Called /\ Result.wrote) =>
        LET payload == Result.sent.processed
            w       == Result.sent.written
        IN  /\ Len(w) = Len(payload) + 2
            /\ SubSeq(w, 1, Len(payload)) = payload
            /\ w[Len(payload) + 1] = 13
            /\ w[Len(w)] = BitXor(127, xor_fold(w, 1, Len(w) - 1))

\* C4: for a text without mapped pairs whose whole telegram fits in 255 bytes,
\* the payload handed to the framer is "aA", the encoded address, the encoded
\* block count, "A0", the text, two line breaks (three if the text has none)
\* and spaces up to 16*numBlocks - 2; the call writes it and runs on.
C4_PayloadLayout ==
    (Called /\ PairStarts(text) = {} /\ Len(Layout(address, text).payload) + 2 <= 255) =>
        /\ Result.sent.processed = Layout(address, text).payload
        /\ Result.wrote /\ ~Result.halted

\* C4's case: address 2, "Hello", giving "aA21A0Hello", three line breaks, six spaces.
C4_HelloWitness ==
    /\ Called /\ address = 2 /\ text = Hello
    /\ Result.sent.processed =
         <<97, 65, 50, 49, 65, 48, 72, 101, 108, 108, 111, 10, 10, 10, 32, 32, 32, 32, 32, 32>>

\* C5: vdv_hex gives one alphabet character for 0..15, the high then the low
\* nibble's characters for 16..255, and "??" for anything else.
C5_VdvHex ==
    hexOut # NoCall =>
        /\ (0 <= hexIn /\ hexIn <= 15) => hexOut[1] = <<48 + hexIn>>
        /\ (16 <= hexIn /\ hexIn <= 255) =>
               hexOut[1] = <<48 + (hexIn \div 16), 48 + (hexIn % 16)>>
        /\ (hexIn < 0 \/ hexIn > 255) => hexOut[1] = <<63, 63>>

\* C5's case: 171 = 0xAB gives ":;".
C5_Witness == hexIn = 171 /\ hexOut = << <<58, 59>> >>

\* C6: process_special_characters replaces exactly the seven pairs, copies
\* every other byte in order (a 0xC3 without a mapped second byte too), the
\* output is shorter by the number of pairs and holds no mapped pair.
C6_Normalize ==
    normOut # NoCall =>
        /\ normOut[1] = Rewritten(normIn)
        /\ Len(normOut[1]) = Len(normIn) - Cardinality(PairStarts(normIn))
        /\ PairStarts(normOut[1]) = {}

\* C6's case: a pair replaced next to a 0xC3 that stays (C3 C3 BC gives C3 '}').
C6_Witness == normIn = <<195, 195, 188>> /\ normOut = << <<195, 125>> >>

\* C7: a display text whose padded message or telegram does not fit the
\* 256-byte buffers is rejected: nothing is written to the sink and nothing
\* is stored at index 256 or beyond.
TooLong(a, t) ==
    LET body   == t \o LineBreaks(t)
        usable == (16 * CeilDiv(Len(body) + 2, 16)) - 2
    IN  \/ usable + 1 > BufSize                                    \* message and its 0
        \/ Len(Layout(a, t).header) + usable + 2 + 1 > BufSize     \* telegram, CR, checksum, 0

C7_OversizeRejected ==
    (Called /\ TooLong(address, text)) =>
        /\ ~Result.wrote
        /\ ~Result.call.message_oob
        /\ ~Result.sent.oob

\* C8: on the lighting channel a payload starting "On" sets the pin HIGH,
\* otherwise one starting "Off" sets it LOW, and any other payload leaves it.
Handling == pc = "poll" /\ pc' = "check" /\ connected /\ unread
HasPrefix(p, lit) == Len(p) >= Len(lit) /\ \A i \in 1..Len(lit) : p[i] = lit[i]

C8_LightingPrefix ==
    [][ (Handling /\ packet[1].topic = topic_lighting) =>
            LET p == packet[1].payload
            IN  lighting' = IF HasPrefix(p, On) THEN HIGH
                            ELSE IF HasPrefix(p, Off) THEN LOW
                            ELSE lighting ]_vars

\* C8's case: "Offline" has been handled on the lighting channel and the pin is LOW.
C8_Witness ==
    /\ packet # NoMsg /\ ~unread /\ packet[1] = [topic |-> topic_lighting, payload |-> Offline]
    /\ lighting = LOW

C10_FrameEffects ==
    /\ lighting = LOW
    /\ [][ /\ lighting' # lighting =>
                /\ Handling /\ packet[1].topic = topic_lighting
                /\ \/ HasPrefix(packet[1].payload, On) /\ lighting' = HIGH
                   \/ ~HasPrefix(packet[1].payload, On)
                        /\ HasPrefix(packet[1].payload, Off) /\ lighting' = LOW
           /\ (Handling /\ packet[1].topic = topic_lighting
                        /\ HasPrefix(packet[1].payload, On)) => lighting' = HIGH
           /\ (Handling /\ packet[1].topic = topic_lighting
                        /\ ~HasPrefix(packet[1].payload, On)
                        /\ HasPrefix(packet[1].payload, Off)) => lighting' = LOW
           /\ (Handling /\ packet[1].topic # topic_message) =>
                (nwrites' = nwrites /\ sink' = sink)
           /\ (Handling /\ packet[1].topic = topic_message /\ ~halted') =>
                nwrites' = nwrites + 1
           /\ ~Handling => (nwrites' = nwrites /\ sink' = sink) ]_vars

\* C10's case: the lighting was switched on, then a display text was handled
\* with its one write, and the pin is still HIGH.
C10_Witness ==
    /\ packet # NoMsg /\ ~unread /\ connected /\ packet[1].topic = topic_message
    /\ lighting = HIGH /\ nwrites = 1 /\ ~halted

=============================================================================
